---- MODULE Spec2Model ----
(***************************************************************************)
(* Session-typed channels (rust-sessions): the protocol algebra, the       *)
(* channel handle operations, session establishment and the selection      *)
(* structures of src/src/lib.rs, over the std mpsc transport that          *)
(* src/src/mpsc.rs wraps.                                                  *)
(***************************************************************************)
EXTENDS Integers, Sequences, FiniteSets, TLC

VARIABLES
    st,      \* st[e]: where handle e is: none, inflight, live, closed, dropped, panicked
    proto,   \* proto[e]: the protocol type parameter T of Chan<E, T>
    env,     \* env[e]: the environment type parameter E, top of the stack first
    pend,    \* pend[e]: the blocking call the owner of e is inside: idle, recv, offer
    wire,    \* wire[e]: the channel e sends on (tx) and the one it receives on (rx)
    chq,     \* chq[k]: the boxed items in flight on mpsc channel k
    sent,    \* sent[e]: history of the items e wrote
    rcvd,    \* rcvd[e]: history of the items e read, as e read them
    last,    \* last[e]: the outcome of the latest transport operation of e
    loops,   \* loops[e]: number of zero() jumps taken by e
    thr,     \* thr[e]: the thread running the function that was given handle e
    conn,    \* how the pair was made and, for connect, how far connect is
    reg,     \* the registration channel: empty, pending, taken; closed (sender
             \* gone), refused (request gave None); norx (receiver gone),
             \* rejected (accept gave None)
    entered, \* entered[e]: for each frame of env[e], the handle as enter() left it
    selmode, \* selection: which entry point is exercised
    selq,    \* selection: selq[h], the values pending on handle h
    selpeer, \* selection: selpeer[h], the peer of handle h: live or dropped
    selsent, \* selection: selsent[h], number of values the peer of h has sent
    regs,    \* selection: the registered (handle, tag) pairs, in order
    selpc,   \* selection: position of the selecting thread
    selret,  \* selection: what wait / iselect / hselect returned
    selwin,  \* selection: position in regs of the registration that won
    selseen, \* selection: the winner's pending values when the selection returned
    selgot   \* selection: outcome of the caller's recv() on the winner

sessVars == <<st, proto, env, pend, wire, chq, sent, rcvd, last, loops, thr, conn, reg,
              entered>>
selVars == <<selmode, selq, selpeer, selsent, regs, selpc, selret, selwin, selseen, selgot>>
vars == <<st, proto, env, pend, wire, chq, sent, rcvd, last, loops, thr, conn, reg, entered,
          selmode, selq, selpeer, selsent, regs, selpc, selret, selwin, selseen, selgot>>

\* ------------------------------------------------------------------ bounds
MaxInt == 1      \* i64 payloads are drawn from 0..MaxInt
MaxLoops == 1    \* zero() jumps each endpoint may take
MaxChans == 2    \* handles available to a selection
MaxMsgs == 1     \* values each selection peer may send
MaxSize == 3     \* constructors in a descriptor handed to the duality check

\* -------------------------------------------------------- protocol algebra
Eps == <<"Eps">>
Recv(A, R) == <<"Recv", A, R>>
Send(A, R) == <<"Send", A, R>>
Choose(R, S) == <<"Choose", R, S>>
Offer(R, S) == <<"Offer", R, S>>
Rec(R) == <<"Rec", R>>
\* Var<V>: V is a Peano number, Z = 0 and S<P> = P + 1
Var(V) == <<"Var", V>>

Kinds == {"int", "bool"}
Values(A) == IF A = "bool" THEN BOOLEAN ELSE 0..MaxInt

\* A mutation of Dual: the payload kinds of Send / Recv are not compared.
RECURSIVE DualAnyKind(_, _)
DualAnyKind(P, Q) ==
    CASE P[1] = "Eps" -> Q[1] = "Eps"
      [] P[1] = "Send" -> Q[1] = "Recv" /\ DualAnyKind(P[3], Q[3])
      [] P[1] = "Recv" -> Q[1] = "Send" /\ DualAnyKind(P[3], Q[3])
      [] P[1] = "Choose" -> Q[1] = "Offer" /\ DualAnyKind(P[2], Q[2]) /\ DualAnyKind(P[3], Q[3])
      [] P[1] = "Offer" -> Q[1] = "Choose" /\ DualAnyKind(P[2], Q[2]) /\ DualAnyKind(P[3], Q[3])
      [] P[1] = "Var" -> Q[1] = "Var" /\ P[2] = Q[2]
      [] P[1] = "Rec" -> Q[1] = "Rec" /\ DualAnyKind(P[2], Q[2])

\* A mutation of Dual: the impl for (Offer, Choose) is missing.
RECURSIVE DualOneWay(_, _)
DualOneWay(P, Q) ==
    CASE P[1] = "Eps" -> Q[1] = "Eps"
      [] P[1] = "Send" -> Q[1] = "Recv" /\ P[2] = Q[2] /\ DualOneWay(P[3], Q[3])
      [] P[1] = "Recv" -> Q[1] = "Send" /\ P[2] = Q[2] /\ DualOneWay(P[3], Q[3])
      [] P[1] = "Choose" -> Q[1] = "Offer" /\ DualOneWay(P[2], Q[2]) /\ DualOneWay(P[3], Q[3])
      [] P[1] = "Offer" -> FALSE
      [] P[1] = "Var" -> Q[1] = "Var" /\ P[2] = Q[2]
      [] P[1] = "Rec" -> Q[1] = "Rec" /\ DualOneWay(P[2], Q[2])

\* (P, Q): Dual, one case per impl
RECURSIVE Dual(_, _)
Dual(P, Q) ==
    CASE P[1] = "Eps" -> Q[1] = "Eps"
      [] P[1] = "Send" -> Q[1] = "Recv" /\ P[2] = Q[2] /\ Dual(P[3], Q[3])
      [] P[1] = "Recv" -> Q[1] = "Send" /\ P[2] = Q[2] /\ Dual(P[3], Q[3])
      [] P[1] = "Choose" -> Q[1] = "Offer" /\ Dual(P[2], Q[2]) /\ Dual(P[3], Q[3])
      [] P[1] = "Offer" -> Q[1] = "Choose" /\ Dual(P[2], Q[2]) /\ Dual(P[3], Q[3])
      [] P[1] = "Var" -> Q[1] = "Var" /\ P[2] = Q[2]
      [] P[1] = "Rec" -> Q[1] = "Rec" /\ Dual(P[2], Q[2])

\* (E, F): EnvDual; environments are stacks, the head is the top
RECURSIVE EnvDual(_, _)
EnvDual(E, F) ==
    IF E = <<>> \/ F = <<>> THEN E = <<>> /\ F = <<>>
    ELSE Dual(Head(E), Head(F)) /\ EnvDual(Tail(E), Tail(F))

\* Every descriptor of n constructors; Var<V> counts one for Var and one for
\* each S of V.
RECURSIVE OfSize(_)
OfSize(n) ==
    IF n = 1 THEN {Eps, Var(0)}
    ELSE {Var(n - 1)}
         \cup {Send(A, R) : A \in Kinds, R \in OfSize(n - 1)}
         \cup {Recv(A, R) : A \in Kinds, R \in OfSize(n - 1)}
         \cup {Rec(R) : R \in OfSize(n - 1)}
         \cup UNION {{Choose(R, S) : R \in OfSize(i), S \in OfSize(n - 1 - i)} :
                     i \in 1..(n - 2)}
         \cup UNION {{Offer(R, S) : R \in OfSize(i), S \in OfSize(n - 1 - i)} :
                     i \in 1..(n - 2)}

Descriptors == UNION {OfSize(n) : n \in 1..MaxSize}

\* The protocols the sessions are instantiated at.
Client == Send("int", Recv("bool", Eps))
Server == Recv("int", Send("bool", Eps))
SkipA == Choose(Send("int", Eps), Eps)
SkipB == Offer(Recv("int", Eps), Eps)
LoopA == Rec(Choose(Send("int", Var(0)), Eps))
LoopB == Rec(Offer(Recv("int", Var(0)), Eps))
NestA == Rec(Send("bool", Rec(Choose(Var(1), Eps))))
NestB == Rec(Recv("bool", Rec(Offer(Var(1), Eps))))
MixA == Send("bool", Choose(Send("int", Eps), Recv("bool", Eps)))
MixB == Recv("bool", Offer(Recv("int", Eps), Send("bool", Eps)))
BodyA == Send("int", Var(0))
BodyB == Recv("int", Var(0))

Protocols == {Client, Server, SkipA, SkipB, LoopA, LoopB, NestA, NestB, MixA, MixB,
              Var(0), Var(1), Send("bool", Eps), Recv("int", Eps)}
Envs == {<<>>, <<BodyA>>, <<BodyB>>}

\* A mutation of TypeArgs: the environments are not required to be dual.
TypeArgsAnyEnv == {t \in [R : Protocols, S : Protocols, E : Envs, E_ : Envs] :
                      Dual(t.R, t.S)}

\* The type arguments session_channel / connect accept: where (R, S): Dual, (E, E_): EnvDual
TypeArgs == {t \in [R : Protocols, S : Protocols, E : Envs, E_ : Envs] :
                Dual(t.R, t.S) /\ EnvDual(t.E, t.E_)}

\* ------------------------------------------------------------ the transport
Ends == {1, 2}
Peer(e) == 3 - e
NoOp == [op |-> "none", res |-> "none"]

Holding == {"live", "inflight"}
SenderAlive(k) == \E e \in Ends : st[e] \in Holding /\ wire[e].tx = k
ReceiverAlive(k) == \E e \in Ends : st[e] \in Holding /\ wire[e].rx = k

\* Sender::send: fails iff the receiving half is gone
SenderSend(k) == IF ReceiverAlive(k) THEN "Ok" ELSE "Err"
\* Receiver::recv returns once an item is queued or every sender is gone
CanRecv(k) == chq[k] # <<>> \/ ~SenderAlive(k)
ReceiverRecv(k) == IF chq[k] # <<>> THEN "Ok" ELSE "Err"

\* Value::send / Value::recv hand the transport's Result to their caller
Value_send(k) == SenderSend(k)
Value_recv(k) == ReceiverRecv(k)

\* tx.send(Box::new(x)).unwrap()
unsafe_write_chan(e) == IF SenderSend(wire[e].tx) = "Ok" THEN "ok" ELSE "panic"

\* A mutation of Reinterpret: the box is read back as some value of the kind.
ReinterpretAny(item, A) == Values(A)

\* transmute of the receiver to Receiver<Box<A>>: a box written at kind A is
\* read back as written; a box written at another kind is undefined behaviour
Reinterpret(item, A) == IF item.kind = A THEN {item.val} ELSE Values(A)

\* *rx.recv().unwrap(): the values the read may produce, or a panic
unsafe_read_chan(e, A) ==
    IF ReceiverRecv(wire[e].rx) = "Ok"
    THEN {[res |-> "ok", val |-> v] : v \in Reinterpret(Head(chq[wire[e].rx]), A)}
    ELSE {[res |-> "panic"]}

\* Dropping a Chan drops both halves; a channel without receiver frees its items
Release(e) == [chq EXCEPT ![wire[e].rx] = <<>>]

\* a panic unwinds the thread, which drops the handle
Panic(e, name) ==
    /\ st' = [st EXCEPT ![e] = "panicked"]
    /\ thr' = [thr EXCEPT ![e] = IF @ = "running" THEN "panicked" ELSE @]
    /\ pend' = [pend EXCEPT ![e] = "idle"]
    /\ last' = [last EXCEPT ![e] = [op |-> name, res |-> "panic"]]
    /\ chq' = Release(e)
    /\ UNCHANGED <<proto, env, wire, sent, rcvd, loops, conn, reg, entered>>

\* the write half of send / sel1 / sel2: box the value and move to `next`
Write(e, name, tag, A, v, next) ==
    /\ st[e] = "live" /\ pend[e] = "idle"
    /\ IF unsafe_write_chan(e) = "panic" THEN Panic(e, name)
       ELSE LET it == [tag |-> tag, kind |-> A, val |-> v, from |-> e,
                       seq |-> Len(sent[e]) + 1] IN
            /\ chq' = [chq EXCEPT ![wire[e].tx] = Append(@, it)]
            /\ sent' = [sent EXCEPT ![e] = Append(@, [op |-> name, at |-> proto[e],
                                                      to |-> next, item |-> it])]
            /\ proto' = [proto EXCEPT ![e] = next]
            /\ last' = [last EXCEPT ![e] = [op |-> name, res |-> "ok"]]
            /\ UNCHANGED <<st, env, pend, wire, rcvd, loops, thr, conn, reg, entered>>

\* the read half of recv / offer
Read(e, name, A, o, next) ==
    IF o.res = "panic" THEN Panic(e, name)
    ELSE /\ chq' = [chq EXCEPT ![wire[e].rx] = Tail(@)]
         /\ rcvd' = [rcvd EXCEPT ![e] = Append(@, [op |-> name, at |-> proto[e],
                        to |-> next, kind |-> A, val |-> o.val,
                        item |-> Head(chq[wire[e].rx])])]
         /\ proto' = [proto EXCEPT ![e] = next]
         /\ pend' = [pend EXCEPT ![e] = "idle"]
         /\ last' = [last EXCEPT ![e] = [op |-> name, res |-> "ok"]]
         /\ UNCHANGED <<st, env, wire, sent, loops, thr, conn, reg, entered>>

\* -------------------------------------------------------- Chan operations
\* A mutation of close: the peer is told of the end with a message.
close_notifying(e) ==
    /\ st[e] = "live" /\ pend[e] = "idle" /\ proto[e][1] = "Eps"
    /\ st' = [st EXCEPT ![e] = "closed"]
    /\ chq' = [Release(e) EXCEPT ![wire[e].tx] =
                  Append(@, [tag |-> "choice", kind |-> "bool", val |-> FALSE,
                             from |-> e, seq |-> Len(sent[e]) + 1])]
    /\ UNCHANGED <<proto, env, pend, wire, sent, rcvd, last, loops, thr, conn, reg, entered>>

close(e) ==
    /\ st[e] = "live" /\ pend[e] = "idle" /\ proto[e][1] = "Eps"
    /\ st' = [st EXCEPT ![e] = "closed"]
    /\ chq' = Release(e)
    /\ UNCHANGED <<proto, env, pend, wire, sent, rcvd, last, loops, thr, conn, reg, entered>>

send(e, v) ==
    /\ proto[e][1] = "Send"
    /\ Write(e, "send", "payload", proto[e][2], v, proto[e][3])

sel1(e) ==
    /\ proto[e][1] = "Choose"
    /\ Write(e, "sel1", "choice", "bool", TRUE, proto[e][2])

sel2(e) ==
    /\ proto[e][1] = "Choose"
    /\ Write(e, "sel2", "choice", "bool", FALSE, proto[e][3])

\* A mutation of skip: the left branch is selected.
skip_left(e) == sel1(e)

\* skip: self.sel2()
skip(e) == sel2(e)

\* the owner of e calls recv() / offer() and is inside the call until it returns
recv_call(e) ==
    /\ st[e] = "live" /\ pend[e] = "idle" /\ proto[e][1] = "Recv"
    /\ pend' = [pend EXCEPT ![e] = "recv"]
    /\ UNCHANGED <<st, proto, env, wire, chq, sent, rcvd, last, loops, thr, conn, reg, entered>>

recv(e) ==
    /\ st[e] = "live" /\ pend[e] = "recv"
    /\ CanRecv(wire[e].rx)
    /\ \E o \in unsafe_read_chan(e, proto[e][2]) :
          Read(e, "recv", proto[e][2], o, proto[e][3])

offer_call(e) ==
    /\ st[e] = "live" /\ pend[e] = "idle" /\ proto[e][1] = "Offer"
    /\ pend' = [pend EXCEPT ![e] = "offer"]
    /\ UNCHANGED <<st, proto, env, wire, chq, sent, rcvd, last, loops, thr, conn, reg, entered>>

\* A mutation of offer: the two branches are exchanged.
offer_swapped(e) ==
    /\ st[e] = "live" /\ pend[e] = "offer"
    /\ CanRecv(wire[e].rx)
    /\ \E o \in unsafe_read_chan(e, "bool") :
          Read(e, "offer", "bool", o,
               IF o.res = "ok" /\ o.val THEN proto[e][3] ELSE proto[e][2])

\* let b = unsafe_read_chan(&self); if b { Ok(..) } else { Err(..) }
offer(e) ==
    /\ st[e] = "live" /\ pend[e] = "offer"
    /\ CanRecv(wire[e].rx)
    /\ \E o \in unsafe_read_chan(e, "bool") :
          Read(e, "offer", "bool", o,
               IF o.res = "ok" /\ o.val THEN proto[e][2] ELSE proto[e][3])

enter(e) ==
    /\ st[e] = "live" /\ pend[e] = "idle" /\ proto[e][1] = "Rec"
    /\ env' = [env EXCEPT ![e] = <<proto[e][2]>> \o @]
    /\ proto' = [proto EXCEPT ![e] = proto[e][2]]
    /\ entered' = [entered EXCEPT ![e] = <<[proto |-> proto'[e], env |-> env'[e]]>> \o @]
    /\ UNCHANGED <<st, pend, wire, chq, sent, rcvd, last, loops, thr, conn, reg>>

\* A mutation of zero: the jump pops the frame it jumps to.
zero_popping(e) ==
    /\ st[e] = "live" /\ pend[e] = "idle"
    /\ proto[e] = Var(0) /\ env[e] # <<>>
    /\ loops[e] < MaxLoops
    /\ proto' = [proto EXCEPT ![e] = Head(env[e])]
    /\ env' = [env EXCEPT ![e] = Tail(@)]
    /\ loops' = [loops EXCEPT ![e] = @ + 1]
    /\ UNCHANGED <<st, pend, wire, chq, sent, rcvd, last, thr, conn, reg, entered>>

zero(e) ==
    /\ st[e] = "live" /\ pend[e] = "idle"
    /\ proto[e] = Var(0) /\ env[e] # <<>>
    /\ loops[e] < MaxLoops
    /\ proto' = [proto EXCEPT ![e] = Head(env[e])]
    /\ loops' = [loops EXCEPT ![e] = @ + 1]
    /\ UNCHANGED <<st, env, pend, wire, chq, sent, rcvd, last, thr, conn, reg, entered>>

succ(e) ==
    /\ st[e] = "live" /\ pend[e] = "idle"
    /\ proto[e][1] = "Var" /\ proto[e][2] > 0 /\ env[e] # <<>>
    /\ proto' = [proto EXCEPT ![e] = Var(proto[e][2] - 1)]
    /\ env' = [env EXCEPT ![e] = Tail(@)]
    /\ entered' = [entered EXCEPT ![e] = Tail(@)]
    /\ UNCHANGED <<st, pend, wire, chq, sent, rcvd, last, loops, thr, conn, reg>>

\* a handle that goes out of scope before its protocol reached Eps
drop(e) ==
    /\ st[e] = "live" /\ pend[e] = "idle"
    /\ st' = [st EXCEPT ![e] = "dropped"]
    /\ chq' = Release(e)
    /\ UNCHANGED <<proto, env, pend, wire, sent, rcvd, last, loops, thr, conn, reg, entered>>

\* --------------------------------------------------- session establishment
\* An environment (R1, (R2, ...)) a handle is created with stands for loops
\* entered before: frame i was entered at body Ri over the frames below it.
Frames(E) == [i \in 1..Len(E) |-> [proto |-> E[i], env |-> SubSeq(E, i, Len(E))]]

\* A mutation of CrossWire: each handle is given both halves of one channel.
StraightWire == [e \in Ends |-> [tx |-> e, rx |-> e]]

\* c1 = Chan(tx1, rx2), c2 = Chan(tx2, rx1)
CrossWire == [e \in Ends |-> [tx |-> e, rx |-> Peer(e)]]

\* borrow_accept wires its pair the same way
AcceptWire == [e \in Ends |-> [tx |-> e, rx |-> Peer(e)]]

session_channel(t) ==
    /\ conn = "init"
    /\ conn' = "pair"
    /\ wire' = CrossWire
    /\ st' = [e \in Ends |-> "live"]
    /\ proto' = [e \in Ends |-> IF e = 1 THEN t.R ELSE t.S]
    /\ env' = [e \in Ends |-> IF e = 1 THEN t.E ELSE t.E_]
    /\ entered' = [e \in Ends |-> Frames(env'[e])]
    /\ UNCHANGED <<pend, chq, sent, rcvd, last, loops, thr, reg>>

\* connect: let (tx, rx) = channel(); scoped(move || srv(accept(tx).unwrap()))
connect_spawn(t) ==
    /\ conn = "init"
    /\ conn' = "spawned"
    /\ thr' = [e \in Ends |-> "running"]
    /\ proto' = [e \in Ends |-> IF e = 1 THEN t.S ELSE t.R]
    /\ env' = [e \in Ends |-> IF e = 1 THEN t.E_ ELSE t.E]
    /\ entered' = [e \in Ends |-> Frames(env'[e])]
    /\ UNCHANGED <<st, pend, wire, chq, sent, rcvd, last, loops, reg>>

\* a server and a client started apart share a registration channel:
\* the server holds tx: Sender<Chan<E, R>>, the client rx
rendezvous(t) ==
    /\ conn = "init"
    /\ conn' = "rendezvous"
    /\ proto' = [e \in Ends |-> IF e = 1 THEN t.S ELSE t.R]
    /\ env' = [e \in Ends |-> IF e = 1 THEN t.E_ ELSE t.E]
    /\ entered' = [e \in Ends |-> Frames(env'[e])]
    /\ UNCHANGED <<st, pend, wire, chq, sent, rcvd, last, loops, thr, reg>>

\* the server lets go of tx without accepting / the client of rx without
\* requesting
drop_tx ==
    /\ conn = "rendezvous" /\ reg = "empty"
    /\ reg' = "closed"
    /\ UNCHANGED <<st, proto, env, pend, wire, chq, sent, rcvd, last, loops, thr, conn,
                   entered>>

drop_rx ==
    /\ conn = "rendezvous" /\ reg = "empty"
    /\ reg' = "norx"
    /\ UNCHANGED <<st, proto, env, pend, wire, chq, sent, rcvd, last, loops, thr, conn,
                   entered>>

\* the server side: accept(tx) makes the pair and publishes c1; it keeps c2
\* if tx.send(c1) is Ok and gives None, dropping both, if the receiver is gone
accept ==
    /\ \/ conn = "spawned" /\ thr[2] = "running"
       \/ conn = "rendezvous"
    /\ reg \in {"empty", "norx"} /\ st[2] = "none"
    /\ wire' = AcceptWire
    /\ IF reg = "empty"
       THEN /\ st' = [st EXCEPT ![1] = "inflight", ![2] = "live"]
            /\ reg' = "pending"
       ELSE /\ st' = [e \in Ends |-> "dropped"]
            /\ reg' = "rejected"
    /\ UNCHANGED <<proto, env, pend, chq, sent, rcvd, last, loops, thr, conn, entered>>

\* A mutation of request: a closed registration channel is waited on.
request_pending_only ==
    /\ \/ conn = "spawned" /\ thr[1] = "running"
       \/ conn = "rendezvous"
    /\ reg = "pending"
    /\ st' = [st EXCEPT ![1] = "live"]
    /\ reg' = "taken"
    /\ UNCHANGED <<proto, env, pend, wire, chq, sent, rcvd, last, loops, thr, conn, entered>>

\* the client side: request(rx) returns once rx.recv() does: Some(handle) for
\* a published handle, None if the sender is gone and nothing is pending
request ==
    /\ \/ conn = "spawned" /\ thr[1] = "running"
       \/ conn = "rendezvous"
    /\ reg \in {"pending", "closed"}
    /\ IF reg = "pending"
       THEN /\ st' = [st EXCEPT ![1] = "live"]
            /\ reg' = "taken"
       ELSE /\ reg' = "refused"
            /\ UNCHANGED st
    /\ UNCHANGED <<proto, env, pend, wire, chq, sent, rcvd, last, loops, thr, conn, entered>>

\* mpsc.rs session_channel: master_tx feeds slave_rx, slave_tx feeds master_rx
MpscWire == [e \in Ends |-> [tx |-> e, rx |-> Peer(e)]]

\* mpsc.rs connect: session_channel(), spawn(move || slave_fn(slave)), then
\* master_fn(master) on the caller's thread; both environments are ()
mpsc_connect_spawn(t) ==
    /\ conn = "init"
    /\ t.E = <<>> /\ t.E_ = <<>>
    /\ conn' = "mpsc_spawned"
    /\ wire' = MpscWire
    /\ st' = [e \in Ends |-> "live"]
    /\ thr' = [e \in Ends |-> "running"]
    /\ proto' = [e \in Ends |-> IF e = 1 THEN t.R ELSE t.S]
    /\ env' = [e \in Ends |-> <<>>]
    /\ entered' = [e \in Ends |-> Frames(env'[e])]
    /\ UNCHANGED <<pend, chq, sent, rcvd, last, loops, reg>>

\* thread.join().unwrap() after master_fn returned
mpsc_connect_join ==
    /\ conn = "mpsc_spawned" /\ thr[1] = "done"
    /\ thr[2] \in {"done", "panicked"}
    /\ conn' = IF thr[2] = "panicked" THEN "mpsc_panicked" ELSE "returned"
    /\ UNCHANGED <<st, proto, env, pend, wire, chq, sent, rcvd, last, loops, thr, reg, entered>>

\* master_fn panicked: the JoinHandle is dropped, which detaches the thread
mpsc_connect_unwind ==
    /\ conn = "mpsc_spawned" /\ thr[1] = "panicked"
    /\ conn' = "mpsc_panicked"
    /\ UNCHANGED <<st, proto, env, pend, wire, chq, sent, rcvd, last, loops, thr, reg, entered>>

\* the functions given to connect return once they have let go of their handle
fn_return(e) ==
    /\ conn \in {"spawned", "mpsc_spawned"}
    /\ thr[e] = "running" /\ st[e] \in {"closed", "dropped"}
    /\ thr' = [thr EXCEPT ![e] = "done"]
    /\ UNCHANGED <<st, proto, env, pend, wire, chq, sent, rcvd, last, loops, conn, reg, entered>>

\* A mutation of connect_join: connect returns without joining the server thread.
connect_join_nowait ==
    /\ conn = "spawned" /\ thr[1] = "done"
    /\ conn' = IF thr[2] = "panicked" THEN "panicked" ELSE "returned"
    /\ UNCHANGED <<st, proto, env, pend, wire, chq, sent, rcvd, last, loops, thr, reg, entered>>

\* joinguard.join() after cli returned: waits for the server thread and
\* panics if that thread panicked
connect_join ==
    /\ conn = "spawned" /\ thr[1] = "done"
    /\ thr[2] \in {"done", "panicked"}
    /\ conn' = IF thr[2] = "panicked" THEN "panicked" ELSE "returned"
    /\ UNCHANGED <<st, proto, env, pend, wire, chq, sent, rcvd, last, loops, thr, reg, entered>>

\* cli panicked: the unwinding drops the join guard, which joins the thread
connect_unwind ==
    /\ conn = "spawned" /\ thr[1] = "panicked"
    /\ thr[2] \in {"done", "panicked"}
    /\ conn' = "panicked"
    /\ UNCHANGED <<st, proto, env, pend, wire, chq, sent, rcvd, last, loops, thr, reg, entered>>


\* ------------------------------------------------------- selection engine
Handles == 1..MaxChans
NoRet == [tag |-> 0, c |-> 0, rest |-> <<>>]
NoGot == [op |-> "none", res |-> "none", val |-> 0]
\* tags a caller passes to add_ret
RetTags == {10, 11}

Registered == {regs[i].chan : i \in 1..Len(regs)}

\* the event Select::wait reports for a receiver: data is queued or the
\* channel is closed
Ready(h) == selq[h] # <<>> \/ selpeer[h] = "dropped"
ReadyRegs == {i \in 1..Len(regs) : Ready(regs[i].chan)}

Remove(s, i) == [j \in 1..(Len(s) - 1) |-> IF j < i THEN s[j] ELSE s[j + 1]]
Chans(s) == [j \in 1..Len(s) |-> s[j].chan]

\* ChanSelect::add_ret: self.chans.push((chan, ret))
add_ret(h, ret) ==
    /\ selmode = "ChanSelect" /\ selpc = "build"
    /\ h \notin Registered
    /\ regs' = Append(regs, [chan |-> h, ret |-> ret])
    /\ UNCHANGED <<selmode, selq, selpeer, selsent, selpc, selret, selwin, selseen, selgot>>

\* ChanSelect::add: the tag is the index the registration gets
add(h) == add_ret(h, Len(regs))

\* what the selecting thread is handed when registration i wins
Returned(i, ret) ==
    /\ selpc' = "returned"
    /\ selwin' = i
    /\ selret' = ret
    /\ selseen' = selq[regs[i].chan]

\* sel.wait() with at least one handle: returns a ready one, else blocks
\* until one is; with no handle nothing can ever wake it
Select_wait(rets) ==
    /\ selpc \in {"build", "call", "blocked"}
    /\ IF ReadyRegs # {}
       THEN \E i \in ReadyRegs : Returned(i, rets[i])
       ELSE /\ selpc # "blocked"
            /\ selpc' = "blocked"
            /\ UNCHANGED <<selret, selwin, selseen>>

\* map.remove(&id).unwrap(): the tag stored for the winning handle
WaitRet == [i \in 1..Len(regs) |-> [NoRet EXCEPT !.tag = regs[i].ret]]
\* map.insert(handle.id(), i): the position in the vector, from 0
IselectRet == [i \in 1..Len(regs) |-> [NoRet EXCEPT !.tag = i - 1]]
\* let c = chans.remove(i); (c, chans)
HselectRet == [i \in 1..Len(regs) |->
                 [tag |-> i - 1, c |-> regs[i].chan, rest |-> Remove(Chans(regs), i)]]

\* A mutation of wait: the winner's first value is taken off its channel.
wait_consuming ==
    /\ selmode = "ChanSelect"
    /\ Select_wait(WaitRet)
    /\ selq' = IF selpc' = "returned" /\ selq[regs[selwin'].chan] # <<>>
               THEN [selq EXCEPT ![regs[selwin'].chan] = Tail(@)] ELSE selq
    /\ UNCHANGED <<selmode, selpeer, selsent, regs, selgot>>

\* ChanSelect::wait
wait ==
    /\ selmode = "ChanSelect"
    /\ Select_wait(WaitRet)
    /\ UNCHANGED <<selmode, selq, selpeer, selsent, regs, selgot>>

\* iselect: the index of the ready channel in the vector
iselect ==
    /\ selmode = "iselect"
    /\ Select_wait(IselectRet)
    /\ UNCHANGED <<selmode, selq, selpeer, selsent, regs, selgot>>

\* hselect: iselect, then the channel is removed from the vector
hselect ==
    /\ selmode = "hselect"
    /\ Select_wait(HselectRet)
    /\ UNCHANGED <<selmode, selq, selpeer, selsent, regs, selgot>>

\* the caller's recv() on the handle the selection identified
sel_recv ==
    /\ selpc = "returned"
    /\ LET h == regs[selwin].chan IN
       /\ Ready(h)
       /\ IF selq[h] # <<>>
          THEN /\ selgot' = [op |-> "recv", res |-> "ok", val |-> Head(selq[h])]
               /\ selq' = [selq EXCEPT ![h] = Tail(@)]
               /\ selpc' = "done"
          ELSE /\ selgot' = [op |-> "recv", res |-> "panic", val |-> 0]
               /\ selq' = [k \in Handles |-> <<>>]
               /\ selpc' = "panicked"
    /\ UNCHANGED <<selmode, selpeer, selsent, regs, selret, selwin, selseen>>

\* the n-th value the peer of handle h sends
PeerValue(h, n) == 10 * h + n

\* the peer of handle h sends its next value / lets go of its handle
sel_peer_send(h) ==
    /\ selpc \notin {"off", "panicked"}
    /\ selpeer[h] = "live" /\ selsent[h] < MaxMsgs
    /\ selq' = [selq EXCEPT ![h] = Append(@, PeerValue(h, selsent[h] + 1))]
    /\ selsent' = [selsent EXCEPT ![h] = @ + 1]
    /\ UNCHANGED <<selmode, selpeer, regs, selpc, selret, selwin, selseen, selgot>>

sel_peer_drop(h) ==
    /\ selpc \notin {"off", "panicked"}
    /\ selpeer[h] = "live"
    /\ selpeer' = [selpeer EXCEPT ![h] = "dropped"]
    /\ UNCHANGED <<selmode, selq, selsent, regs, selpc, selret, selwin, selseen, selgot>>

\* ------------------------------------------------------------------ Spec
SelFresh ==
    /\ selq = [h \in Handles |-> <<>>]
    /\ selpeer = [h \in Handles |-> "live"]
    /\ selsent = [h \in Handles |-> 0]
    /\ selret = NoRet /\ selwin = 0
    /\ selseen = <<>>
    /\ selgot = NoGot

SelIdle ==
    /\ selmode = "off" /\ regs = <<>> /\ selpc = "off" /\ SelFresh

SessIdle ==
    /\ st = [e \in Ends |-> "none"]
    /\ proto = [e \in Ends |-> Eps]
    /\ env = [e \in Ends |-> <<>>]
    /\ pend = [e \in Ends |-> "idle"]
    /\ wire = [e \in Ends |-> [tx |-> e, rx |-> e]]
    /\ chq = [k \in Ends |-> <<>>]
    /\ sent = [e \in Ends |-> <<>>]
    /\ rcvd = [e \in Ends |-> <<>>]
    /\ last = [e \in Ends |-> NoOp]
    /\ loops = [e \in Ends |-> 0]
    /\ thr = [e \in Ends |-> "none"]
    /\ reg = "empty"
    /\ entered = [e \in Ends |-> <<>>]

Init == SessIdle /\ conn = "init" /\ SelIdle

Next ==
    \/ \E t \in TypeArgs : session_channel(t) /\ UNCHANGED selVars
    \/ \E t \in TypeArgs : connect_spawn(t) /\ UNCHANGED selVars
    \/ \E t \in TypeArgs : rendezvous(t) /\ UNCHANGED selVars
    \/ drop_tx /\ UNCHANGED selVars
    \/ drop_rx /\ UNCHANGED selVars
    \/ accept /\ UNCHANGED selVars
    \/ request /\ UNCHANGED selVars
    \/ \E e \in Ends : fn_return(e) /\ UNCHANGED selVars
    \/ connect_join /\ UNCHANGED selVars
    \/ connect_unwind /\ UNCHANGED selVars
    \/ \E t \in TypeArgs : mpsc_connect_spawn(t) /\ UNCHANGED selVars
    \/ mpsc_connect_join /\ UNCHANGED selVars
    \/ mpsc_connect_unwind /\ UNCHANGED selVars
    \/ \E e \in Ends : close(e) /\ UNCHANGED selVars
    \/ \E e \in Ends : \E A \in Kinds : \E v \in Values(A) :
          proto[e][1] = "Send" /\ proto[e][2] = A /\ send(e, v) /\ UNCHANGED selVars
    \/ \E e \in Ends : sel1(e) /\ UNCHANGED selVars
    \/ \E e \in Ends : sel2(e) /\ UNCHANGED selVars
    \/ \E e \in Ends : recv_call(e) /\ UNCHANGED selVars
    \/ \E e \in Ends : recv(e) /\ UNCHANGED selVars
    \/ \E e \in Ends : offer_call(e) /\ UNCHANGED selVars
    \/ \E e \in Ends : offer(e) /\ UNCHANGED selVars
    \/ \E e \in Ends : enter(e) /\ UNCHANGED selVars
    \/ \E e \in Ends : zero(e) /\ UNCHANGED selVars
    \/ \E e \in Ends : succ(e) /\ UNCHANGED selVars
    \/ \E e \in Ends : drop(e) /\ UNCHANGED selVars

Spec == Init /\ [][Next]_vars

\* the vectors iselect / hselect are called with: distinct handles, any order
Vectors == UNION {{f \in [1..n -> Handles] : \A i, j \in 1..n : f[i] = f[j] => i = j} :
                  n \in 0..MaxChans}

InitSel ==
    /\ SessIdle /\ conn = "off"
    /\ SelFresh
    /\ \/ selmode = "ChanSelect" /\ regs = <<>> /\ selpc = "build"
       \/ /\ selmode \in {"iselect", "hselect"} /\ selpc = "call"
          /\ \E f \in Vectors : regs = [i \in 1..Len(f) |-> [chan |-> f[i], ret |-> i - 1]]

NextSel ==
    \/ \E h \in Handles : add(h) /\ UNCHANGED sessVars
    \/ \E h \in Handles : \E ret \in RetTags : add_ret(h, ret) /\ UNCHANGED sessVars
    \/ wait /\ UNCHANGED sessVars
    \/ iselect /\ UNCHANGED sessVars
    \/ hselect /\ UNCHANGED sessVars
    \/ sel_recv /\ UNCHANGED sessVars
    \/ \E h \in Handles : sel_peer_send(h) /\ UNCHANGED sessVars
    \/ \E h \in Handles : sel_peer_drop(h) /\ UNCHANGED sessVars

SpecSel == InitSel /\ [][NextSel]_vars

\* the environment the loops of a descriptor give a handle: (R, ()) inside
\* Rec<R>, () elsewhere
LoopEnv(P) == IF P[1] = "Rec" THEN <<P[2]>> ELSE <<>>

\* the compiler resolves `where (R, S): Dual, (E, E_): EnvDual` for the type
\* arguments a function is used at, in either order of the pair
Verdict(b) == IF b THEN "dual" ELSE "not_dual"
dual_check ==
    /\ conn = "typecheck"
    /\ conn' = "typechecked"
    /\ last' = [e \in Ends |->
                  [op |-> "Dual",
                   res |-> Verdict(Dual(proto[e], proto[Peer(e)])),
                   envres |-> Verdict(EnvDual(env[e], env[Peer(e)]))]]
    /\ UNCHANGED <<st, proto, env, pend, wire, chq, sent, rcvd, loops, thr, reg, entered>>

InitDual ==
    /\ conn = "typecheck" /\ SelIdle
    /\ \E P \in Descriptors : \E Q \in Descriptors :
          /\ proto = [e \in Ends |-> IF e = 1 THEN P ELSE Q]
          /\ env = [e \in Ends |-> LoopEnv(proto[e])]
    /\ st = [e \in Ends |-> "none"]
    /\ pend = [e \in Ends |-> "idle"]
    /\ wire = [e \in Ends |-> [tx |-> e, rx |-> e]]
    /\ chq = [k \in Ends |-> <<>>]
    /\ sent = [e \in Ends |-> <<>>]
    /\ rcvd = [e \in Ends |-> <<>>]
    /\ last = [e \in Ends |-> NoOp]
    /\ loops = [e \in Ends |-> 0]
    /\ thr = [e \in Ends |-> "none"]
    /\ reg = "empty"
    /\ entered = [e \in Ends |-> <<>>]

NextDual == dual_check /\ UNCHANGED selVars

SpecDual == InitDual /\ [][NextDual]_vars

\* ------------------------------------------------- the programs of the docs
\* let n = 42
DocN == 42
\* the integers cli is run with: the one of the example and the small ones
CliInts == Values("int") \cup {DocN}

\* connect(srv, cli) with srv: Chan<(), Server> and cli: Chan<(), Client>
EvenOddArgs == [R |-> Server, S |-> Client, E |-> <<>>, E_ |-> <<>>]
\* a client that skips the integer of Choose<Send<i64, Eps>, Eps>
SkipArgs == [R |-> SkipB, S |-> SkipA, E |-> <<>>, E_ |-> <<>>]
ExampleArgs == {EvenOddArgs, SkipArgs}
\* the same programs under connect of mpsc.rs, cli as master_fn
MpscExampleArgs == {[R |-> Client, S |-> Server, E |-> <<>>, E_ |-> <<>>],
                    [R |-> SkipA, S |-> SkipB, E |-> <<>>, E_ |-> <<>>]}

\* cli: let c = c.send(n)
cli_send(n) == proto[1] = Client /\ send(1, n)

\* A mutation of srv_reply: the test of n is inverted.
srv_reply_odd ==
    /\ proto[2] = Send("bool", Eps) /\ rcvd[2] # <<>>
    /\ send(2, rcvd[2][1].val % 2 # 0)

\* srv: if n % 2 == 0 { c.send(true).close() } else { c.send(false).close() }
srv_reply ==
    /\ proto[2] = Send("bool", Eps) /\ rcvd[2] # <<>>
    /\ send(2, rcvd[2][1].val % 2 = 0)

\* the client of the skip session: c.skip().close()
cli_skip == proto[1] = SkipA /\ skip(1)

InitExamples == Init

NextExamples ==
    \/ \E t \in ExampleArgs : connect_spawn(t) /\ UNCHANGED selVars
    \/ \E t \in MpscExampleArgs : mpsc_connect_spawn(t) /\ UNCHANGED selVars
    \/ accept /\ UNCHANGED selVars
    \/ request /\ UNCHANGED selVars
    \/ \E n \in CliInts : cli_send(n) /\ UNCHANGED selVars
    \/ srv_reply /\ UNCHANGED selVars
    \/ cli_skip /\ UNCHANGED selVars
    \/ \E e \in Ends : recv_call(e) /\ UNCHANGED selVars
    \/ \E e \in Ends : recv(e) /\ UNCHANGED selVars
    \/ \E e \in Ends : offer_call(e) /\ UNCHANGED selVars
    \/ \E e \in Ends : offer(e) /\ UNCHANGED selVars
    \/ \E e \in Ends : close(e) /\ UNCHANGED selVars
    \/ \E e \in Ends : fn_return(e) /\ UNCHANGED selVars
    \/ connect_join /\ UNCHANGED selVars
    \/ mpsc_connect_join /\ UNCHANGED selVars

\* both threads are scheduled: a step that stays possible is taken
SpecExamples == InitExamples /\ [][NextExamples]_vars /\ WF_vars(NextExamples)

\* ------------------------------------------- parties that follow the protocol
\* Eps can be reached from descriptor P under environment E with at most k
\* more zero() jumps
RECURSIVE CanEnd(_, _, _)
CanEnd(P, E, k) ==
    CASE P[1] = "Eps" -> TRUE
      [] P[1] \in {"Send", "Recv"} -> CanEnd(P[3], E, k)
      [] P[1] \in {"Choose", "Offer"} -> CanEnd(P[2], E, k) \/ CanEnd(P[3], E, k)
      [] P[1] = "Rec" -> CanEnd(P[2], <<P[2]>> \o E, k)
      [] P[1] = "Var" ->
            /\ E # <<>>
            /\ IF P[2] = 0 THEN k > 0 /\ CanEnd(Head(E), E, k - 1)
               ELSE CanEnd(Var(P[2] - 1), Tail(E), k)

\* the jumps handle e may still take
Budget(e) == MaxLoops - loops[e]

\* the functions given to connect use their handle as its type dictates and
\* hold on to it until close; at a Choose they take a branch that can still
\* end within the iterations they are allowed
choose_left(e) ==
    /\ proto[e][1] = "Choose" /\ CanEnd(proto[e][2], env[e], Budget(e))
    /\ sel1(e)

choose_right(e) ==
    /\ proto[e][1] = "Choose" /\ CanEnd(proto[e][3], env[e], Budget(e))
    /\ sel2(e)

InitProgress == Init

NextProgress ==
    \/ conn = "init" /\ \E t \in TypeArgs : connect_spawn(t) /\ UNCHANGED selVars
    \/ conn = "init" /\ \E t \in TypeArgs : mpsc_connect_spawn(t) /\ UNCHANGED selVars
    \/ accept /\ UNCHANGED selVars
    \/ request /\ UNCHANGED selVars
    \/ \E e \in Ends : close(e) /\ UNCHANGED selVars
    \/ \E e \in Ends : \E A \in Kinds : \E v \in Values(A) :
          proto[e][1] = "Send" /\ proto[e][2] = A /\ send(e, v) /\ UNCHANGED selVars
    \/ \E e \in Ends : choose_left(e) /\ UNCHANGED selVars
    \/ \E e \in Ends : choose_right(e) /\ UNCHANGED selVars
    \/ \E e \in Ends : recv_call(e) /\ UNCHANGED selVars
    \/ \E e \in Ends : recv(e) /\ UNCHANGED selVars
    \/ \E e \in Ends : offer_call(e) /\ UNCHANGED selVars
    \/ \E e \in Ends : offer(e) /\ UNCHANGED selVars
    \/ \E e \in Ends : enter(e) /\ UNCHANGED selVars
    \/ \E e \in Ends : zero(e) /\ UNCHANGED selVars
    \/ \E e \in Ends : succ(e) /\ UNCHANGED selVars
    \/ \E e \in Ends : fn_return(e) /\ UNCHANGED selVars
    \/ connect_join /\ UNCHANGED selVars
    \/ mpsc_connect_join /\ UNCHANGED selVars

\* both threads are scheduled: a step that stays possible is taken
SpecProgress == InitProgress /\ [][NextProgress]_vars /\ WF_vars(NextProgress)

\* ---------------------------------------------------------------- claims
IsPrefix(a, b) == Len(a) <= Len(b) /\ \A i \in 1..Len(a) : a[i] = b[i]
Items(s) == [j \in 1..Len(s) |-> s[j].item]
\* the reads made so far: the endpoint and the position in its history
Reads == {x \in Ends \X (1..Len(rcvd[1]) \cup 1..Len(rcvd[2])) : x[2] <= Len(rcvd[x[1]])}

\* C1: round-trip fidelity. Every value recv() returned at Receive(A, R') is
\* exactly the value the peer passed to send at Send(A, R), and the two
\* handles moved on to the continuations R' and R.
C1_RoundTrip ==
    \A x \in Reads :
        LET e == x[1]
            r == rcvd[e][x[2]] IN
        r.op = "recv" =>
            /\ x[2] <= Len(sent[Peer(e)])
            /\ LET s == sent[Peer(e)][x[2]] IN
               /\ s.op = "send"
               /\ s.at[1] = "Send" /\ r.at[1] = "Recv"
               /\ s.item.kind = r.kind
               /\ r.val = s.item.val
               /\ s.to = s.at[3]
               /\ r.to = r.at[3]

C1_Witness ==
    \E e \in Ends :
        /\ Len(rcvd[e]) > 0 /\ rcvd[e][1].op = "recv" /\ rcvd[e][1].kind = "int"
        /\ rcvd[e][1].val = 1
        /\ proto[e] = rcvd[e][1].to /\ proto[Peer(e)] = sent[Peer(e)][1].to

\* C2: Choose/Offer agreement. offer() returns Ok (the left branch) exactly
\* when the peer called sel1 and Err (the right branch) exactly when the peer
\* called sel2; the chooser moved to the same side.
C2_ChooseOffer ==
    \A x \in Reads :
        LET e == x[1]
            r == rcvd[e][x[2]] IN
        r.op = "offer" =>
            /\ x[2] <= Len(sent[Peer(e)])
            /\ LET s == sent[Peer(e)][x[2]] IN
               /\ s.op \in {"sel1", "sel2"}
               /\ r.at[1] = "Offer" /\ s.at[1] = "Choose"
               /\ s.op = "sel1" => r.val = TRUE /\ r.to = r.at[2] /\ s.to = s.at[2]
               /\ s.op = "sel2" => r.val = FALSE /\ r.to = r.at[3] /\ s.to = s.at[3]

C2_Witness ==
    \E e \in Ends :
        /\ Len(rcvd[e]) > 0 /\ rcvd[e][1].op = "offer"
        /\ sent[Peer(e)][1].op = "sel2"
        /\ rcvd[e][1].at = SkipB /\ proto[e] = Eps

\* C3: kind safety of the type-erased transport. What recv() takes off the
\* channel is a payload the peer wrote with send at the same kind; what
\* offer() takes off is a discriminator the peer wrote with sel1 / sel2.
C3_KindSafety ==
    \A x \in Reads :
        LET e == x[1]
            r == rcvd[e][x[2]] IN
        /\ r.item.from = Peer(e)
        /\ r.item.seq <= Len(sent[Peer(e)])
        /\ LET s == sent[Peer(e)][r.item.seq] IN
           /\ r.op = "recv" =>
                 /\ r.item.tag = "payload" /\ r.item.kind = r.kind
                 /\ s.op = "send" /\ s.at[1] = "Send" /\ s.at[2] = r.kind
           /\ r.op = "offer" =>
                 /\ r.item.tag = "choice" /\ r.item.kind = "bool"
                 /\ s.op \in {"sel1", "sel2"}

C3_Witness ==
    \E e \in Ends :
        /\ Len(rcvd[e]) > 1
        /\ rcvd[e][1].op = "recv" /\ rcvd[e][1].kind = "bool"
        /\ rcvd[e][2].op = "offer"

\* C4: FIFO per direction. What an endpoint has read is, item for item, the
\* start of what its peer wrote; what is still queued for it is the rest, in
\* order; no item comes back to its writer.
C4_Fifo ==
    \A e \in Ends :
        /\ Len(rcvd[e]) <= Len(sent[Peer(e)])
        /\ \A i \in 1..Len(rcvd[e]) :
              /\ rcvd[e][i].item.from = Peer(e)
              /\ rcvd[e][i].item.seq = i
              /\ rcvd[e][i].item = sent[Peer(e)][i].item
        /\ st[e] \in Holding =>
              chq[wire[e].rx] = Items(SubSeq(sent[Peer(e)], Len(rcvd[e]) + 1,
                                             Len(sent[Peer(e)])))

C4_Witness ==
    \E e \in Ends :
        /\ Len(rcvd[e]) > 1 /\ Len(sent[e]) > 0
        /\ rcvd[e][1].item.tag # rcvd[e][2].item.tag

\* C5: a recv() that finds its channel empty and the peer gone hands a
\* TransportError back to its caller.
C5_RecvReturnsError ==
    \A e \in Ends :
        last[e].op = "recv" /\ last[e].res # "ok" => last[e].res = "err"

\* C6: a send whose peer is gone hands a TransportError back to its caller,
\* and the handle stays at Send(A, R).
C6_SendReturnsError ==
    \A e \in Ends :
        last[e].op = "send" /\ last[e].res # "ok" =>
            last[e].res = "err" /\ proto[e][1] = "Send"

\* C7: connect (either one) returns only after both functions have finished;
\* the connect of lib.rs is not left by unwinding either while the server
\* thread runs.
C7_ConnectJoins ==
    /\ conn = "returned" => thr[1] = "done" /\ thr[2] = "done"
    /\ conn = "panicked" => thr[2] \in {"done", "panicked"}
    /\ conn \in {"spawned", "mpsc_spawned"} => \A e \in Ends : thr[e] # "none"

C7_Witness ==
    /\ conn = "returned" /\ reg = "taken"
    /\ Len(rcvd[1]) > 0 /\ Len(rcvd[2]) > 0
    /\ st[1] = "closed" /\ st[2] = "closed"

\* C8: when wait / iselect returns, the handle it identifies has a value
\* available to receive.
C8_WaitReturnsReady ==
    selpc = "returned" => selseen # <<>>

\* C9: wait / iselect / hselect consume nothing. When the selection returns
\* every value the peers have sent is still queued, in order, on its handle,
\* and the caller's recv() on the winner then returns the value that was
\* first on the winner and takes nothing from another handle.
C9_WaitConsumesNothing ==
    /\ selpc \in {"build", "call", "blocked", "returned"} =>
          \A h \in Handles : Len(selq[h]) = selsent[h]
    /\ selpc = "returned" => IsPrefix(selseen, selq[regs[selwin].chan])
    /\ selpc = "done" =>
          /\ selseen # <<>>
          /\ selgot.res = "ok"
          /\ selgot.val = Head(selseen)
          /\ selgot.val = PeerValue(regs[selwin].chan, 1)
          /\ \A h \in Handles :
                Len(selq[h]) = selsent[h] - (IF h = regs[selwin].chan THEN 1 ELSE 0)

C9_Witness ==
    /\ selmode = "ChanSelect" /\ selpc = "done" /\ Len(regs) = MaxChans
    /\ selgot.val = PeerValue(regs[selwin].chan, 1)
    /\ \E h \in Handles : h # regs[selwin].chan /\ selq[h] # <<>>

\* C10: a selection over zero handles fails at once with EmptySelection; it
\* does not block.
C10_EmptyFailsAtOnce ==
    regs = <<>> => selpc # "blocked"

\* C11: selection over dead peers. When every registered handle's peer is
\* gone without having sent anything, wait / iselect / hselect do not hand
\* the caller the tag of one of these handles; the selection fails instead.
AllDead ==
    /\ regs # <<>>
    /\ \A i \in 1..Len(regs) :
          selpeer[regs[i].chan] = "dropped" /\ selsent[regs[i].chan] = 0

C11_DeadPeersFail ==
    AllDead => selpc \notin {"returned", "done", "panicked"}

\* what hselect returned splits its input: the winner is the handle at the
\* winning position, the rest is the input without that position, in order
HselectSplits ==
    LET input == Chans(regs)
        i == selwin IN
    /\ i \in 1..Len(input)
    /\ selret.c = input[i]
    /\ Len(selret.rest) = Len(input) - 1
    /\ \A j \in 1..Len(selret.rest) :
          selret.rest[j] = IF j < i THEN input[j] ELSE input[j + 1]
    /\ \A j \in 1..Len(selret.rest) : selret.rest[j] # selret.c

\* C12: hselect on a non-empty list returns (winner, rest): the winner is a
\* handle of the input that has a value to receive, the rest is exactly the
\* other handles, each once, in their input order, one shorter than the input.
C12_HselectWinnerRest ==
    selmode = "hselect" /\ selpc = "returned" =>
        HselectSplits /\ selseen # <<>>

\* the order and content part of C12 alone
HselectSplitsAlways ==
    selmode = "hselect" /\ selpc = "returned" => HselectSplits

\* a step of handle e that jumps (zero) / that pops a frame (succ)
Jumps(e) == loops'[e] # loops[e]
Pops(e) == conn # "init" /\ Len(env'[e]) < Len(env[e])

\* C13: recursion stack balance. The environment holds one frame per loop
\* entered and not yet left; recursing out (succ for each layer, then zero)
\* puts the handle back exactly as the enter of the layer it lands on left it,
\* body and stack; a handle at a recursion variable over an empty stack cannot
\* move, so the stack is never popped past empty.
C13_StackBalance ==
    /\ [](\A e \in Ends : Len(entered[e]) = Len(env[e]))
    /\ [][\A e \in Ends :
            /\ Jumps(e) =>
                  /\ entered[e] # <<>>
                  /\ proto'[e] = Head(entered[e]).proto
                  /\ env'[e] = Head(entered[e]).env
                  /\ entered'[e] = entered[e]
            /\ Pops(e) =>
                  /\ env[e] # <<>> /\ env'[e] = Tail(env[e])
                  /\ entered'[e] = Tail(entered[e])
                  /\ proto[e][1] = "Var" /\ proto'[e] = Var(proto[e][2] - 1)
            /\ proto[e][1] = "Var" /\ env[e] = <<>> /\ conn # "init" =>
                  proto'[e] = proto[e] /\ env'[e] = env[e]]_vars

\* two nested loops entered, one layer left with succ, then zero: the handle
\* is back at the body and stack of the first enter
C13_Witness ==
    \E e \in Ends :
        /\ loops[e] = 1 /\ Len(sent[e]) = 2
        /\ sent[e][2].to = Var(1)
        /\ proto[e] = NestA[2] /\ env[e] = <<NestA[2]>>
        /\ entered[e] = <<[proto |-> NestA[2], env |-> <<NestA[2]>>]>>

\* C14: duality is symmetric. For all descriptors P and Q built from Eps,
\* Send, Recv, Choose, Offer, Rec and Var, (P, Q) is accepted as dual iff
\* (Q, P) is, and the same for the environments.
C14_DualSymmetric ==
    conn = "typechecked" =>
        /\ last[1].res = last[2].res
        /\ last[1].envres = last[2].envres

\* a pair with a choice in it that is accepted in both orders
C14_Witness ==
    /\ conn = "typechecked"
    /\ proto[1][1] = "Offer" /\ proto[2][1] = "Choose"
    /\ last[1].res = "dual" /\ last[2].res = "dual"

\* the session connect was started at, told in every later state
EvenOddSession == proto[1] = Client \/ (sent[1] # <<>> /\ sent[1][1].at = Client)
SkipSession == proto[1] = SkipA \/ (sent[1] # <<>> /\ sent[1][1].at = SkipA)
Spawned == conn \in {"spawned", "mpsc_spawned"}
NoError == \A e \in Ends : st[e] # "panicked" /\ thr[e] # "panicked"
BothDone ==
    /\ conn = "returned"
    /\ \A e \in Ends : st[e] = "closed" /\ thr[e] = "done" /\ proto[e] = Eps

EvenOddSafe ==
    /\ NoError
    /\ rcvd[2] # <<>> => rcvd[2][1].val = sent[1][1].item.val
    /\ sent[2] # <<>> => sent[2][1].item.val = (sent[1][1].item.val % 2 = 0)
    /\ rcvd[1] # <<>> =>
          /\ rcvd[1][1].val = (sent[1][1].item.val % 2 = 0)
          /\ sent[1][1].item.val = DocN => rcvd[1][1].val = TRUE

\* C15: the even/odd session run by connect. For every n the client sends,
\* the server receives n and replies n % 2 = 0, the client receives exactly
\* that boolean (true for 42), nothing fails, and in every interleaving both
\* close and connect returns.
C15_EvenOdd ==
    /\ [](EvenOddSession => EvenOddSafe)
    /\ (Spawned /\ EvenOddSession)
          ~> (BothDone /\ Len(rcvd[1]) = 1 /\ Len(rcvd[2]) = 1)

C15_Witness ==
    /\ BothDone /\ EvenOddSession
    /\ sent[1][1].item.val = DocN /\ rcvd[2][1].val = DocN
    /\ rcvd[1][1].val = TRUE

SkipSafe ==
    /\ NoError
    /\ proto[2] # Recv("int", Eps)
    /\ \A e \in Ends : \A i \in 1..Len(sent[e]) :
          sent[e][i].item.tag # "payload" /\ sent[e][i].item.kind # "int"
    /\ \A k \in Ends : \A i \in 1..Len(chq[k]) : chq[k][i].kind # "int"
    /\ rcvd[2] # <<>> =>
          /\ rcvd[2][1].op = "offer" /\ rcvd[2][1].val = FALSE
          /\ rcvd[2][1].to = SkipB[3]

\* C16: the skip session. The client at Choose(Send(int, Eps), Eps) calls skip
\* and closes; the server's offer sees the right branch and it closes; the
\* server is never at a state that expects an integer, no integer is written
\* to the transport, and both terminate.
C16_Skip ==
    /\ [](SkipSession => SkipSafe)
    /\ (Spawned /\ SkipSession)
          ~> (BothDone /\ Len(rcvd[2]) = 1 /\ sent[2] = <<>> /\ Len(sent[1]) = 1)

C16_Witness ==
    /\ BothDone /\ SkipSession
    /\ sent[1][1].op = "sel2"
    /\ rcvd[2][1].op = "offer" /\ rcvd[2][1].val = FALSE

\* the two handles are the two ends of one session: each receives what the
\* other sends
Wired ==
    /\ wire[1].tx = wire[2].rx /\ wire[1].rx = wire[2].tx
    /\ wire[1].tx # wire[1].rx

\* C17: request on a registration channel whose sender is gone with nothing
\* published returns None: it is not blocked and it does not fail; with a
\* handle published by accept pending, request returns that handle, wired as
\* the peer of the handle accept kept.
C17_RequestNone ==
    /\ conn = "rendezvous" /\ reg \in {"closed", "pending"} => ENABLED request
    /\ reg = "refused" => \A e \in Ends : st[e] = "none"
    /\ reg = "pending" => st[1] = "inflight" /\ st[2] # "none"
    /\ reg = "taken" => st[1] \notin {"none", "inflight"} /\ st[2] # "none" /\ Wired

C17_Witness ==
    conn = "rendezvous" /\ reg = "refused" /\ proto[1] = Client

\* a step in which session_channel (of lib.rs / of mpsc.rs) returns its pair
PairMade == conn = "init" /\ conn' \in {"pair", "mpsc_spawned"}

\* C18 as claimed: every pair session_channel returns is typed with dual
\* descriptors and both handles start with an empty environment stack.
C18_PairEmptyEnv ==
    [][PairMade =>
          /\ Dual(proto'[1], proto'[2])
          /\ env'[1] = <<>> /\ env'[2] = <<>>]_vars

\* C18, amended: every pair session_channel returns is typed with dual
\* descriptors and with environment stacks that are dual frame by frame, so
\* of the same depth; the stacks are empty for the session_channel of mpsc.rs.
C18_PairDual ==
    [][PairMade =>
          /\ Dual(proto'[1], proto'[2])
          /\ EnvDual(env'[1], env'[2])
          /\ Len(env'[1]) = Len(env'[2])
          /\ \A e \in Ends : st'[e] = "live" /\ entered'[e] = Frames(env'[e])
          /\ conn' = "mpsc_spawned" => env'[1] = <<>> /\ env'[2] = <<>>]_vars

\* a pair of lib.rs that starts inside a loop body it never entered
C18_Witness ==
    /\ conn = "pair"
    /\ proto[1] = Var(0) /\ proto[2] = Var(0)
    /\ env[1] = <<BodyA>> /\ env[2] = <<BodyB>>
    /\ \A e \in Ends : st[e] = "live" /\ loops[e] = 0 /\ sent[e] = <<>>

\* a step of handle e that is a close / an enter
Closes(e) == st[e] = "live" /\ st'[e] = "closed"
Enters(e) == conn # "init" /\ Len(env'[e]) > Len(env[e])
\* the latest entry of a history
Latest(h) == h[Len(h)]

\* C19: bookkeeping does no transport I/O. A close, enter, zero or succ step
\* leaves the pending messages of both directions, and what has been written
\* and read, as they were; a queue grows only by the item a send / sel1 / sel2
\* of its writer appends, and loses an item only to a recv / offer of its
\* reader, which takes the first (or is freed when its reader is gone).
C19_BookkeepingNoIO ==
    [][/\ \A e \in Ends :
             Closes(e) \/ Enters(e) \/ Jumps(e) \/ Pops(e) =>
                 chq' = chq /\ sent' = sent /\ rcvd' = rcvd
       /\ \A e \in Ends :
             LET out == wire[e].tx
                 inq == wire[e].rx IN
             /\ Len(chq'[out]) > Len(chq[out]) =>
                   /\ Len(sent'[e]) = Len(sent[e]) + 1
                   /\ Latest(sent'[e]).op \in {"send", "sel1", "sel2"}
                   /\ chq'[out] = Append(chq[out], Latest(sent'[e]).item)
             /\ conn # "init" /\ Len(chq'[inq]) < Len(chq[inq]) =>
                   \/ /\ Len(rcvd'[e]) = Len(rcvd[e]) + 1
                      /\ Latest(rcvd'[e]).op \in {"recv", "offer"}
                      /\ Latest(rcvd'[e]).item = Head(chq[inq])
                      /\ chq'[inq] = Tail(chq[inq])
                   \/ /\ st'[e] \in {"dropped", "panicked"}
                      /\ chq'[inq] = <<>>]_vars

\* a handle that entered a loop, jumped back and closed while what it wrote
\* is still pending
C19_Witness ==
    \E e \in Ends :
        /\ st[e] = "closed" /\ loops[e] = 1
        /\ Len(chq[wire[e].tx]) >= 2
        /\ Len(chq[wire[e].tx]) = Len(sent[e])

\* handle e is inside recv / offer with nothing to read
Blocked(e) == pend[e] # "idle" /\ chq[wire[e].rx] = <<>>
\* everything written was read and nothing is pending
AllDelivered ==
    \A e \in Ends : chq[e] = <<>> /\ Len(rcvd[e]) = Len(sent[Peer(e)])
BothClosed == \A e \in Ends : st[e] = "closed"

ProgressSafe ==
    /\ NoError
    /\ \A e \in Ends : last[e].res # "panic"
    /\ ~(Blocked(1) /\ Blocked(2))
    /\ BothClosed => AllDelivered

\* a party that has used up its iterations and is at the jump of its loop: it
\* stands for one that keeps looping
StillLooping == \E e \in Ends : Budget(e) = 0 /\ proto[e] = Var(0) /\ env[e] # <<>>

\* C20 as claimed: for every pair of dual protocols run by connect, with
\* parties that follow their descriptors, both parties reach Eps and close
\* (or are still in a loop when the bounded iterations are used up).
C20_AllEnd ==
    Spawned ~> ((BothDone /\ AllDelivered) \/ StillLooping)

\* C20, amended: for every pair of dual protocols run by connect, both parties
\* are never blocked in recv / offer together, no operation meets a
\* disconnected peer, and all that was written has been read when both have
\* closed; and if Eps can be reached within the allowed iterations, both
\* parties do close, and connect returns.
C20_Progress ==
    /\ []ProgressSafe
    /\ (Spawned /\ \A e \in Ends : CanEnd(proto[e], env[e], Budget(e)))
          ~> (BothDone /\ AllDelivered)

\* a session with a loop and a choice that ran to its end
C20_Witness ==
    /\ BothDone /\ AllDelivered
    /\ \A e \in Ends : loops[e] = 1
    /\ \E e \in Ends : Len(sent[e]) >= 3 /\ sent[e][1].at = LoopA[2]
====
